---- MODULE Spec2Model ----
(***************************************************************************)
(* Model of watch-restart.py: the file watcher that maps changed paths to  *)
(* systemd services and restarts them with a per-service debounce.         *)
(*                                                                         *)
(* Strings are TLA+ strings; startswith, substring search, rstrip and      *)
(* Path.relative_to are computed character by character.  Time is counted  *)
(* in whole seconds.                                                       *)
(***************************************************************************)
EXTENDS Integers, Sequences, FiniteSets, TLC

VARIABLES
    mainPc,            \* position of main()
    checked,           \* services already queried by the startup status loop
    status,            \* main()'s local `status` (last is-active answer)
    observer,          \* the watchdog Observer: "new", "running", "stopped"
    clock,             \* time.time(), in seconds
    last_restart,      \* RestartHandler.last_restart (a dict: service -> time)
    pending_restarts,  \* RestartHandler.pending_restarts (a set)
    th,                \* per dispatching thread: handler position, locals, and
                       \* the event, outcome and printed lines of its last callback
    calls,             \* history: the direct restart_service() calls and their fate
    runs,              \* history: every `systemctl restart` invocation
    last_outcome,      \* history: how the latest finished `systemctl restart` ended
    probe,             \* a get_service() evaluation on a given rule table
    watch_dir_exists   \* the filesystem: WATCH_DIR is a readable directory

vars == <<mainPc, checked, status, observer, clock, last_restart,
          pending_restarts, th, calls, runs, last_outcome, probe,
          watch_dir_exists>>

---------------------------------------------------------------------------
(* Bounds of the model *)

\* the clock runs from 0 to MaxTime
MaxTime == 3
\* direct restart_service() calls in one run of the call driver
MaxCalls == 3
\* direct restart_service() calls in one run with two calling threads
MaxConcCalls == 2
\* longest rule table tried by the get_service() probe
MaxRules == 3
\* deepest relative path classified with SERVICE_MAP by the probe
MaxDepth == 2

---------------------------------------------------------------------------
(* Configuration (watch-restart.py lines 21-45) *)

WATCH_DIR == "/home/liveStream"

DEBOUNCE_SECONDS == 2

\* Python's None
None == "None"

\* a dict keeps insertion order: the pairs in the order written
SERVICE_MAP ==
    << [pattern |-> "animation-server/", service |-> "animation"],
       [pattern |-> "frontend/",         service |-> "livestream"],
       [pattern |-> "server.js",         service |-> "livestream"],
       [pattern |-> "voices.js",         service |-> "livestream"],
       [pattern |-> "tools/",            service |-> None] >>

IGNORE_PATTERNS ==
    << "node_modules", ".git", "streams", "exported-layers", "temp",
       "__pycache__", ".pyc", ".log", ".ts", ".m3u8" >>

\* the services main() queries at startup
STATUS_SERVICES == << "animation", "livestream", "webhook" >>

---------------------------------------------------------------------------
(* String primitives *)

\* s.startswith(p)
StartsWith(s, p) ==
    /\ Len(p) <= Len(s)
    /\ SubSeq(s, 1, Len(p)) = p

\* pat in s
Contains(s, pat) ==
    \E i \in 1..(Len(s) - Len(pat) + 1) : SubSeq(s, i, i + Len(pat) - 1) = pat

\* s.rstrip("/")
RECURSIVE RStripSlash(_)
RStripSlash(s) ==
    IF Len(s) > 0 /\ SubSeq(s, Len(s), Len(s)) = "/"
        THEN RStripSlash(SubSeq(s, 1, Len(s) - 1))
        ELSE s

\* Path(path).relative_to(WATCH_DIR) succeeds: WATCH_DIR's components lead path's
IsRelativeTo(path) ==
    \/ path = WATCH_DIR
    \/ StartsWith(path, WATCH_DIR \o "/")

\* str(Path(path).relative_to(WATCH_DIR)), where it succeeds
relative_to(path) ==
    IF path = WATCH_DIR
        THEN "."
        ELSE SubSeq(path, Len(WATCH_DIR) + 2, Len(path))

---------------------------------------------------------------------------
(* RestartHandler: the pure parts *)

\* a should_ignore that looks at the file name only
should_ignore_name(path) ==
    LET slashes == {i \in 1..Len(path) : SubSeq(path, i, i) = "/"}
        last == IF slashes = {} THEN 0
                ELSE CHOOSE i \in slashes : \A j \in slashes : j <= i
        name == SubSeq(path, last + 1, Len(path))
    IN  \E k \in 1..Len(IGNORE_PATTERNS) : Contains(name, IGNORE_PATTERNS[k])

\* should_ignore(path): any(pattern in str(path) for pattern in IGNORE_PATTERNS)
should_ignore(path) ==
    \E k \in 1..Len(IGNORE_PATTERNS) : Contains(path, IGNORE_PATTERNS[k])

\* the test of one rule in get_service's loop
\* a test without the `rel_path == pattern.rstrip("/")` alternative
RuleMatches_PrefixOnly(rule, rel_path) ==
    StartsWith(rel_path, rule.pattern)

\* a test that strips the separator before startswith
RuleMatches_Stripped(rule, rel_path) ==
    StartsWith(rel_path, RStripSlash(rule.pattern))

RuleMatches(rule, rel_path) ==
    \/ StartsWith(rel_path, rule.pattern)
    \/ rel_path = RStripSlash(rule.pattern)

\* a loop that keeps the last match instead of returning at the first
RECURSIVE ScanRulesLast(_, _, _)
ScanRulesLast(table, rel_path, k) ==
    IF k > Len(table)
        THEN None
        ELSE LET rest == ScanRulesLast(table, rel_path, k + 1) IN
             IF \E j \in (k + 1)..Len(table) : RuleMatches(table[j], rel_path)
                 THEN rest
                 ELSE IF RuleMatches(table[k], rel_path)
                     THEN table[k].service
                     ELSE None

\* get_service's loop over the rule table from rule k on: return at the first match
RECURSIVE ScanRules(_, _, _)
ScanRules(table, rel_path, k) ==
    IF k > Len(table)
        THEN None
        ELSE IF RuleMatches(table[k], rel_path)
            THEN table[k].service
            ELSE ScanRules(table, rel_path, k + 1)

\* get_service(path) on a given rule table; path is a descendant of WATCH_DIR
get_service_in(table, path) == ScanRules(table, relative_to(path), 1)

\* get_service(path) on SERVICE_MAP
get_service(path) == get_service_in(SERVICE_MAP, path)

\* a test that lets None through: `if service != "":`
Truthy_NotEmpty(service) == service # ""

\* `if service:`
Truthy(service) == service # None /\ service # ""

---------------------------------------------------------------------------
(* The environment: filesystem events and subprocess outcomes *)

Threads == {1, 2}

\* paths the notification source reports: descendants of WATCH_DIR
WatchedPaths ==
    { "/home/liveStream/animation-server/app.py",
      "/home/liveStream/frontend/index.html",
      "/home/liveStream/frontend/temp/a.js",
      "/home/liveStream/tools/build.py",
      "/home/liveStream/docs/readme.md" }

\* paths that are no descendant of WATCH_DIR
OutsidePaths ==
    { "/srv/frontend/index.html",
      "/home/liveStream-old/server.js" }

EventsOn(paths) ==
    [src_path : paths, is_directory : BOOLEAN, event_type : {"modified", "created"}]

\* events of WATCH_DIR that end their callback before restart_service: an
\* ignored path, a path of a rule mapped to None, a path of no rule, a directory
StreamEvents ==
    { [src_path |-> "/home/liveStream/frontend/temp/a.js",
       is_directory |-> FALSE, event_type |-> "modified"],
      [src_path |-> "/home/liveStream/tools/build.py",
       is_directory |-> FALSE, event_type |-> "created"],
      [src_path |-> "/home/liveStream/docs/readme.md",
       is_directory |-> FALSE, event_type |-> "modified"],
      [src_path |-> "/home/liveStream/frontend/index.html",
       is_directory |-> TRUE, event_type |-> "created"] }

NoEvent == [src_path |-> "", is_directory |-> FALSE, event_type |-> "none"]

\* the services restart_service() is called with
Services == {"animation", "livestream"}

\* what subprocess.run(["systemctl", "restart", service]) can do: return with
\* returncode 0, return with another returncode, or raise (systemctl missing)
RestartOutcomes == {"rc0", "rc1", "FileNotFoundError"}

\* what subprocess.run(["systemctl", "is-active", service]) can do
IsActiveOutcomes == {"active", "inactive", "unknown", "FileNotFoundError"}

---------------------------------------------------------------------------
(* Initial state: the process has started, main() is about to run *)

Idle == [pc |-> "idle", event |-> NoEvent, service |-> None, now |-> 0,
         call |-> 0, result |-> "none", printed |-> << >>]

NoProbe == [table |-> << >>, path |-> "", result |-> "unset"]

Init ==
    /\ mainPc = "selfcheck"
    /\ checked = 0
    /\ status = "unset"
    /\ observer = "new"
    /\ clock = 0
    /\ last_restart = << >>
    /\ pending_restarts = {}
    /\ th = [t \in Threads |-> Idle]
    /\ calls = << >>
    /\ runs = << >>
    /\ last_outcome = "none"
    /\ probe = NoProbe
    /\ watch_dir_exists \in BOOLEAN

---------------------------------------------------------------------------
(* RestartHandler: the event callbacks *)

\* the callback returns: its locals are gone; the event, the outcome and the
\* lines it printed are kept
Return(t, res, lines) ==
    th' = [th EXCEPT ![t] = [Idle EXCEPT !.event = th[t].event, !.result = res,
                                         !.printed = lines]]

\* an exception leaves the callback: the dispatching thread ends
Raise(t, exc, lines) ==
    th' = [th EXCEPT ![t] = [Idle EXCEPT !.pc = "dead", !.event = th[t].event,
                                         !.result = exc, !.printed = lines]]

\* restart_service(service) is entered: now = time.time() (line 67)
Enter(t, service, call, lines) ==
    th' = [th EXCEPT ![t] = [pc |-> "check", event |-> th[t].event,
                             service |-> service, now |-> clock, call |-> call,
                             result |-> "none", printed |-> lines]]

\* a handler without the directory guard
is_directory_Never(e) == FALSE

\* `if event.is_directory:`
is_directory(e) == e.is_directory

\* on_modified(event) up to the call of restart_service (lines 93-104)
on_modified(t) ==
    LET e == th[t].event IN
    IF is_directory(e)
        THEN Return(t, "directory", << >>)
    ELSE IF should_ignore(e.src_path)
        THEN Return(t, "ignored", << >>)
    ELSE IF ~IsRelativeTo(e.src_path)
        THEN Raise(t, "ValueError", << >>)
    ELSE LET service == get_service(e.src_path) IN
        IF Truthy(service)
            THEN Enter(t, service, 0, << <<"Changed", relative_to(e.src_path)>> >>)
            ELSE Return(t, "noservice", << >>)

\* an on_created that does nothing
on_created_Pass(t) == Return(t, "none", << >>)

\* on_created(event): self.on_modified(event)
on_created(t) == on_modified(t)

\* the observer's thread t takes an event off its queue and calls the handler
Dispatch(t, events) ==
    /\ observer = "running"
    /\ th[t].pc = "idle"
    /\ \E e \in events :
        th' = [th EXCEPT ![t] = [Idle EXCEPT !.pc = "dispatch", !.event = e]]
    /\ UNCHANGED <<mainPc, checked, status, observer, clock, last_restart,
                   pending_restarts, calls, runs, last_outcome, probe,
                   watch_dir_exists>>

\* the handler is called with an event, whatever main() is doing
Deliver(t, events) ==
    /\ th[t].pc = "idle"
    /\ \E e \in events :
        th' = [th EXCEPT ![t] = [Idle EXCEPT !.pc = "dispatch", !.event = e]]
    /\ UNCHANGED <<mainPc, checked, status, observer, clock, last_restart,
                   pending_restarts, calls, runs, last_outcome, probe,
                   watch_dir_exists>>

\* a modified event reaches on_modified
HandleModified(t) ==
    /\ th[t].pc = "dispatch"
    /\ th[t].event.event_type = "modified"
    /\ on_modified(t)
    /\ UNCHANGED <<mainPc, checked, status, observer, clock, last_restart,
                   pending_restarts, calls, runs, last_outcome, probe,
                   watch_dir_exists>>

\* a created event reaches on_created
HandleCreated(t) ==
    /\ th[t].pc = "dispatch"
    /\ th[t].event.event_type = "created"
    /\ on_created(t)
    /\ UNCHANGED <<mainPc, checked, status, observer, clock, last_restart,
                   pending_restarts, calls, runs, last_outcome, probe,
                   watch_dir_exists>>

---------------------------------------------------------------------------
(* RestartHandler.restart_service, statement by statement *)

\* a debounce test one second short
InDebounce_Short(lr, service, now) ==
    /\ service \in DOMAIN lr
    /\ now - lr[service] < DEBOUNCE_SECONDS - 1

\* a debounce test with <= for <
InDebounce_Inclusive(lr, service, now) ==
    /\ service \in DOMAIN lr
    /\ now - lr[service] <= DEBOUNCE_SECONDS

\* a debounce test on the latest restart of any service
InDebounce_AnyService(lr, service, now) ==
    \E s \in DOMAIN lr : now - lr[s] < DEBOUNCE_SECONDS

\* the debounce test of lines 70-71
InDebounce(lr, service, now) ==
    /\ service \in DOMAIN lr
    /\ now - lr[service] < DEBOUNCE_SECONDS

\* self.last_restart[service] = now
SetItem(lr, service, now) ==
    [s \in (DOMAIN lr) \cup {service} |-> IF s = service THEN now ELSE lr[s]]

\* the history of direct calls with the fate of call k set (k = 0: not a direct call)
SetFate(k, fate) ==
    IF k = 0 THEN calls ELSE [calls EXCEPT ![k].fate = fate]

\* a caller's thread t calls restart_service(service) directly
CallRestart(t, maxCalls) ==
    /\ th[t].pc = "idle"
    /\ Len(calls) < maxCalls
    /\ \E service \in Services :
        /\ calls' = Append(calls, [service |-> service, now |-> clock,
                                   fate |-> "entered"])
        /\ Enter(t, service, Len(calls) + 1, << >>)
    /\ UNCHANGED <<mainPc, checked, status, observer, clock, last_restart,
                   pending_restarts, runs, last_outcome, probe,
                   watch_dir_exists>>

\* a check that restarts the window at every skipped call
restart_service_check_Refresh(t) ==
    /\ th[t].pc = "check"
    /\ IF InDebounce(last_restart, th[t].service, th[t].now)
        THEN /\ Return(t, "skipped", th[t].printed)
             /\ calls' = SetFate(th[t].call, "skipped")
             /\ last_restart' = SetItem(last_restart, th[t].service, th[t].now)
        ELSE /\ th' = [th EXCEPT ![t].pc = "record"]
             /\ calls' = SetFate(th[t].call, "passed")
             /\ last_restart' = last_restart
    /\ UNCHANGED <<mainPc, checked, status, observer, clock,
                   pending_restarts, runs, last_outcome, probe,
                   watch_dir_exists>>

\* a check that queues the skipped service for a later restart
restart_service_check_Defer(t) ==
    /\ th[t].pc = "check"
    /\ IF InDebounce(last_restart, th[t].service, th[t].now)
        THEN /\ Return(t, "skipped", th[t].printed)
             /\ calls' = SetFate(th[t].call, "skipped")
             /\ pending_restarts' = pending_restarts \cup {th[t].service}
        ELSE /\ th' = [th EXCEPT ![t].pc = "record"]
             /\ calls' = SetFate(th[t].call, "passed")
             /\ pending_restarts' = pending_restarts
    /\ UNCHANGED <<mainPc, checked, status, observer, clock, last_restart,
                   runs, last_outcome, probe,
                   watch_dir_exists>>

\* lines 69-72: the debounce check; a call inside the window returns
restart_service_check(t) ==
    /\ th[t].pc = "check"
    /\ IF InDebounce(last_restart, th[t].service, th[t].now)
        THEN /\ Return(t, "skipped", th[t].printed)
             /\ calls' = SetFate(th[t].call, "skipped")
        ELSE /\ th' = [th EXCEPT ![t].pc = "record"]
             /\ calls' = SetFate(th[t].call, "passed")
    /\ UNCHANGED <<mainPc, checked, status, observer, clock, last_restart,
                   pending_restarts, runs, last_outcome, probe,
                   watch_dir_exists>>

\* the banner alone: the time is not recorded before the command
restart_service_record_Late(t) ==
    /\ th[t].pc = "record"
    /\ th' = [th EXCEPT ![t].pc = "run",
                        ![t].printed = Append(@, <<"Restarting", th[t].service>>)]
    /\ UNCHANGED <<mainPc, checked, status, observer, clock, last_restart,
                   pending_restarts, calls, runs, last_outcome, probe,
                   watch_dir_exists>>

\* lines 74-78: record the time, print the banner
restart_service_record(t) ==
    /\ th[t].pc = "record"
    /\ last_restart' = SetItem(last_restart, th[t].service, th[t].now)
    /\ th' = [th EXCEPT ![t].pc = "run",
                        ![t].printed = Append(@, <<"Restarting", th[t].service>>)]
    /\ UNCHANGED <<mainPc, checked, status, observer, clock, pending_restarts,
                   calls, runs, last_outcome, probe,
                   watch_dir_exists>>

\* lines 81-85: subprocess.run(["systemctl", "restart", service]) is called
restart_service_run(t) ==
    /\ th[t].pc = "run"
    /\ runs' = Append(runs, [service |-> th[t].service, now |-> th[t].now])
    /\ calls' = SetFate(th[t].call, "issued")
    /\ th' = [th EXCEPT ![t].pc = "wait"]
    /\ UNCHANGED <<mainPc, checked, status, observer, clock, last_restart,
                   pending_restarts, last_outcome, probe,
                   watch_dir_exists>>

\* `except subprocess.CalledProcessError`: a missing binary is not caught
ExceptCalledProcessError(exc) == exc = "CalledProcessError"

\* `except Exception`: every exception subprocess.run raises is caught
ExceptException(exc) == TRUE

\* a report that forgets the recorded time when the command fails
restart_service_report_Rollback(t) ==
    /\ th[t].pc = "wait"
    /\ \E outcome \in RestartOutcomes :
        /\ last_outcome' = outcome
        /\ IF outcome = "rc0"
             THEN /\ Return(t, "restarted",
                            Append(th[t].printed, <<"Success", th[t].service>>))
                  /\ last_restart' = last_restart
             ELSE /\ Return(t, "failed",
                            Append(th[t].printed, <<"Failed", th[t].service>>))
                  /\ last_restart' =
                        [s \in (DOMAIN last_restart) \ {th[t].service}
                            |-> last_restart[s]]
    /\ UNCHANGED <<mainPc, checked, status, observer, clock,
                   pending_restarts, calls, runs, probe,
                   watch_dir_exists>>

\* lines 86-91: subprocess.run returns or raises; the outcome is printed
restart_service_report(t) ==
    /\ th[t].pc = "wait"
    /\ \E outcome \in RestartOutcomes :
        /\ last_outcome' = outcome
        /\ IF outcome = "rc0"
             THEN Return(t, "restarted",
                         Append(th[t].printed, <<"Success", th[t].service>>))
           ELSE IF outcome = "rc1"
             THEN Return(t, "failed",
                         Append(th[t].printed, <<"Failed", th[t].service>>))
           ELSE IF ExceptException(outcome)
             THEN Return(t, "error",
                         Append(th[t].printed, <<"Error", th[t].service>>))
             ELSE Raise(t, outcome, th[t].printed)
    /\ UNCHANGED <<mainPc, checked, status, observer, clock, last_restart,
                   pending_restarts, calls, runs, probe,
                   watch_dir_exists>>

---------------------------------------------------------------------------
(* main() *)

\* lines 123-131: one turn of the status loop; subprocess.run is not guarded
StatusCheck ==
    /\ mainPc = "selfcheck"
    /\ checked < Len(STATUS_SERVICES)
    /\ \E out \in IsActiveOutcomes :
        IF out = "FileNotFoundError"
            THEN /\ mainPc' = "crashed"
                 /\ UNCHANGED <<checked, status>>
            ELSE /\ status' = out
                 /\ checked' = checked + 1
                 /\ mainPc' = IF checked + 1 = Len(STATUS_SERVICES)
                                 THEN "start" ELSE "selfcheck"
    /\ UNCHANGED <<observer, clock, last_restart, pending_restarts, th,
                   calls, runs, last_outcome, probe,
                   watch_dir_exists>>

\* a start that catches the error of a missing WATCH_DIR and goes on
StartObserver_Swallow ==
    /\ mainPc = "start"
    /\ observer' = "running"
    /\ mainPc' = "loop"
    /\ status' = "unset"
    /\ UNCHANGED <<checked, clock, last_restart, pending_restarts, th,
                   calls, runs, last_outcome, probe,
                   watch_dir_exists>>

\* lines 134-137: the handler is built, the observer scheduled and started;
\* the status loop's locals are out of use.  observer.start() adds the watch
\* of WATCH_DIR and raises OSError when it cannot; main() catches nothing,
\* so the process ends with a traceback and exit status 1
StartObserver ==
    /\ mainPc = "start"
    /\ IF watch_dir_exists
        THEN /\ observer' = "running"
             /\ mainPc' = "loop"
        ELSE /\ observer' = observer
             /\ mainPc' = "failed"
    /\ status' = "unset"
    /\ UNCHANGED <<checked, clock, last_restart, pending_restarts, th,
                   calls, runs, last_outcome, probe,
                   watch_dir_exists>>

\* an interrupt handler that leaves the loop without observer.stop()
Interrupt_NoStop ==
    /\ mainPc = "loop"
    /\ mainPc' = "join"
    /\ UNCHANGED <<checked, status, observer, clock, last_restart,
                   pending_restarts, th, calls, runs, last_outcome, probe,
                   watch_dir_exists>>

\* lines 139-144: KeyboardInterrupt ends the sleep loop; observer.stop()
Interrupt ==
    /\ mainPc = "loop"
    /\ observer' = "stopped"
    /\ mainPc' = "join"
    /\ UNCHANGED <<checked, status, clock, last_restart, pending_restarts, th,
                   calls, runs, last_outcome, probe,
                   watch_dir_exists>>

\* lines 146-147: observer.join() returns once the dispatching thread has ended
Join ==
    /\ mainPc = "join"
    /\ \A t \in Threads : th[t].pc \in {"idle", "dead"}
    /\ mainPc' = "done"
    /\ UNCHANGED <<checked, status, observer, clock, last_restart,
                   pending_restarts, th, calls, runs, last_outcome, probe,
                   watch_dir_exists>>

\* time passes
Tick ==
    /\ clock < MaxTime
    /\ clock' = clock + 1
    /\ UNCHANGED <<mainPc, checked, status, observer, last_restart,
                   pending_restarts, th, calls, runs, last_outcome, probe,
                   watch_dir_exists>>

---------------------------------------------------------------------------
(* The program: one observer thread dispatches the events of WATCH_DIR *)

Next ==
    \/ StatusCheck
    \/ StartObserver
    \/ Interrupt
    \/ Join
    \/ Tick
    \/ Dispatch(1, EventsOn(WatchedPaths))
    \/ HandleModified(1)
    \/ HandleCreated(1)
    \/ restart_service_check(1)
    \/ restart_service_record(1)
    \/ restart_service_run(1)
    \/ restart_service_report(1)

Spec == Init /\ [][Next]_vars

\* a callback that has been entered runs on: the dispatching thread is
\* scheduled and `systemctl restart` returns (or raises)
HandlerStep(t) ==
    \/ HandleModified(t)
    \/ HandleCreated(t)
    \/ restart_service_check(t)
    \/ restart_service_record(t)
    \/ restart_service_run(t)
    \/ restart_service_report(t)

\* the program with a running callback making progress and observer.join()
\* returning once the dispatching thread has ended
SpecLive == Spec /\ WF_vars(HandlerStep(1)) /\ WF_vars(Join)

---------------------------------------------------------------------------
(* The handler called with any event, also of a path outside WATCH_DIR *)

NextRaw ==
    \/ Next
    \/ Dispatch(1, EventsOn(OutsidePaths))

SpecRaw == Init /\ [][NextRaw]_vars

---------------------------------------------------------------------------
(* restart_service() called directly, by one thread *)

NextCalls ==
    \/ Tick
    \/ CallRestart(1, MaxCalls)
    \/ restart_service_check(1)
    \/ restart_service_record(1)
    \/ restart_service_run(1)
    \/ restart_service_report(1)

SpecCalls == Init /\ [][NextCalls]_vars

---------------------------------------------------------------------------
(* One thread's stream of callbacks: direct restart_service() calls between
   events that end before restart_service *)

NextStream ==
    \/ Tick
    \/ CallRestart(1, MaxCalls)
    \/ Deliver(1, StreamEvents)
    \/ HandleModified(1)
    \/ HandleCreated(1)
    \/ restart_service_check(1)
    \/ restart_service_record(1)
    \/ restart_service_run(1)
    \/ restart_service_report(1)

SpecStream == Init /\ [][NextStream]_vars

---------------------------------------------------------------------------
(* restart_service() called directly, by two threads running interleaved *)

NextConc ==
    \/ Tick
    \/ \E t \in Threads :
        \/ CallRestart(t, MaxConcCalls)
        \/ restart_service_check(t)
        \/ restart_service_record(t)
        \/ restart_service_run(t)
        \/ restart_service_report(t)

SpecConc == Init /\ [][NextConc]_vars

---------------------------------------------------------------------------
(* get_service() evaluated on rule tables and paths of a bounded set *)

ProbePatterns == {"frontend/", "frontend/sub/", "server.js", "tools/"}

ProbeServices == {"livestream", "other", None}

ProbeRules == [pattern : ProbePatterns, service : ProbeServices]

\* a dict has each key once
ProbeTables ==
    { table \in UNION {[1..n -> ProbeRules] : n \in 1..MaxRules} :
        \A i, j \in DOMAIN table : i # j => table[i].pattern # table[j].pattern }

ProbePaths ==
    { WATCH_DIR \o "/" \o rel :
        rel \in {"frontend/sub/x.js", "frontend/a.js", "frontend", "server.js",
                 "tools/t.py", "docs/x"} }

\* the path alphabet: names of a path's components
PathComponents ==
    {"frontend", "frontend-old", "server.js", "server.jsx",
     "animation-server", "tools", "docs", "a.js", "x"}

\* the components joined as pathlib prints them
RECURSIVE JoinPath(_)
JoinPath(cs) ==
    IF Len(cs) = 1
        THEN cs[1]
        ELSE cs[1] \o "/" \o JoinPath(Tail(cs))

\* the descendants of WATCH_DIR of at most MaxDepth components
MapPaths ==
    { WATCH_DIR \o "/" \o JoinPath(cs) :
        cs \in UNION {[1..n -> PathComponents] : n \in 1..MaxDepth} }

InitMatch ==
    /\ mainPc = "selfcheck"
    /\ checked = 0
    /\ status = "unset"
    /\ observer = "new"
    /\ clock = 0
    /\ last_restart = << >>
    /\ pending_restarts = {}
    /\ th = [t \in Threads |-> Idle]
    /\ calls = << >>
    /\ runs = << >>
    /\ last_outcome = "none"
    /\ probe \in [table : ProbeTables, path : ProbePaths, result : {"unset"}]
                  \cup [table : {SERVICE_MAP}, path : MapPaths,
                        result : {"unset"}]
    /\ watch_dir_exists = TRUE

\* service = get_service(path)
Classify ==
    /\ probe.result = "unset"
    /\ probe' = [probe EXCEPT !.result = get_service_in(probe.table, probe.path)]
    /\ UNCHANGED <<mainPc, checked, status, observer, clock, last_restart,
                   pending_restarts, th, calls, runs, last_outcome,
                   watch_dir_exists>>

NextMatch == Classify

SpecMatch == InitMatch /\ [][NextMatch]_vars

---------------------------------------------------------------------------
(* Notions shared by the properties *)

\* the time between two recorded times
Apart(a, b) == IF a <= b THEN b - a ELSE a - b

\* the call has been skipped or has reached its systemctl invocation
Decided(c) == c.fate \in {"skipped", "issued"}

\* the rules of SERVICE_MAP that match a path's form relative to WATCH_DIR
MatchingRules(path) ==
    {k \in DOMAIN SERVICE_MAP : RuleMatches(SERVICE_MAP[k], relative_to(path))}

\* the thread's step ends the callback without any effect
NoEffect(t) ==
    /\ th'[t].pc = "idle"
    /\ th'[t].printed = << >>
    /\ runs' = runs
    /\ last_restart' = last_restart
    /\ pending_restarts' = pending_restarts

\* any two systemctl invocations for one service are recorded
\* DEBOUNCE_SECONDS or more apart
RunsSpaced ==
    \A i, j \in DOMAIN runs :
        (i < j /\ runs[i].service = runs[j].service)
            => Apart(runs[i].now, runs[j].now) >= DEBOUNCE_SECONDS

---------------------------------------------------------------------------
(* C1 *)

\* C1 as stated: invocations for one service are DEBOUNCE_SECONDS or more
\* apart, and any two restart_service() calls for one service less than
\* DEBOUNCE_SECONDS apart produce exactly one invocation.
C1_ExactlyOnePerPair ==
    /\ RunsSpaced
    /\ \A i, j \in DOMAIN calls :
        ( /\ i < j
          /\ calls[i].service = calls[j].service
          /\ Apart(calls[i].now, calls[j].now) < DEBOUNCE_SECONDS
          /\ Decided(calls[i]) /\ Decided(calls[j]) )
        => Cardinality({k \in {i, j} : calls[k].fate = "issued"}) = 1

\* C1 as amended: invocations for one service are DEBOUNCE_SECONDS or more
\* apart, and of two restart_service() calls for one service less than
\* DEBOUNCE_SECONDS apart at most one reaches systemctl: when the earlier
\* one does, the later one is skipped.
C1_AtMostOnePerWindow ==
    /\ RunsSpaced
    /\ \A i, j \in DOMAIN calls :
        ( /\ i < j
          /\ calls[i].service = calls[j].service
          /\ Apart(calls[i].now, calls[j].now) < DEBOUNCE_SECONDS )
        => /\ ~(calls[i].fate \in {"passed", "issued"}
                /\ calls[j].fate \in {"passed", "issued"})
           /\ (calls[i].fate = "issued" /\ Decided(calls[j]))
                => calls[j].fate = "skipped"

C1_Witness ==
    \E i, j \in DOMAIN calls :
        /\ i < j
        /\ calls[i].service = calls[j].service
        /\ Apart(calls[i].now, calls[j].now) < DEBOUNCE_SECONDS
        /\ calls[i].fate = "issued"
        /\ calls[j].fate = "skipped"

---------------------------------------------------------------------------
(* C2 *)

\* C2: two calls for one service running interleaved never both get past
\* the debounce check with times less than DEBOUNCE_SECONDS apart: the check
\* and the write of last_restart act as one atomic step.
C2_AtomicDebounce ==
    \A t, u \in Threads :
        ( /\ t # u
          /\ th[t].pc \in {"record", "run", "wait"}
          /\ th[u].pc \in {"record", "run", "wait"}
          /\ th[t].service = th[u].service )
        => Apart(th[t].now, th[u].now) >= DEBOUNCE_SECONDS

---------------------------------------------------------------------------
(* C3 *)

FailedOutcomes == {"rc1", "FileNotFoundError"}

\* C3: a restart that fails is reported and restart_service returns: the
\* dispatching thread never ends on an exception, it stays ready for the
\* next event, and a call outside the debounce window after a failure goes
\* on to a new invocation.
C3_FailureNotFatal ==
    /\ [](\A t \in Threads : th[t].pc # "dead")
    /\ [][\A t \in Threads :
            /\ (th[t].pc = "wait" /\ th'[t].pc # "wait")
                => /\ th'[t].pc = "idle"
                   /\ last_outcome' \in FailedOutcomes
                        => /\ th'[t].result \in {"failed", "error"}
                           /\ th'[t].printed[Len(th'[t].printed)]
                                \in { <<"Failed", th[t].service>>,
                                      <<"Error", th[t].service>> }
            /\ ( /\ last_outcome \in FailedOutcomes
                 /\ th[t].pc = "check" /\ th'[t] # th[t]
                 /\ \/ th[t].service \notin DOMAIN last_restart
                    \/ th[t].now - last_restart[th[t].service] >= DEBOUNCE_SECONDS )
                => th'[t].pc = "record"
            /\ ( /\ last_outcome \in FailedOutcomes
                 /\ th[t].pc \in {"record", "run"} /\ th'[t] # th[t] )
                => th'[t].pc \in {"run", "wait"}
       ]_vars

\* a restart of a service is in progress after the previous restart of the
\* same service failed
C3_Witness ==
    /\ th[1].pc = "wait"
    /\ last_outcome \in FailedOutcomes
    /\ Len(runs) >= 2
    /\ runs[Len(runs) - 1].service = runs[Len(runs)].service

---------------------------------------------------------------------------
(* C4 *)

\* the path relative to WATCH_DIR contains an ignore pattern
IgnoredRelative(path) ==
    \E k \in DOMAIN IGNORE_PATTERNS :
        \E i \in 1..Len(relative_to(path)) :
            StartsWith(SubSeq(relative_to(path), i, Len(relative_to(path))),
                       IGNORE_PATTERNS[k])

\* C4: a file event whose path under WATCH_DIR contains an ignore pattern
\* ends without a restart and without a printed line, also when a rule of
\* SERVICE_MAP names a service for the path.
C4_IgnoreFirst ==
    [][\A t \in Threads :
        ( /\ th[t].pc = "dispatch" /\ th'[t] # th[t]
          /\ ~th[t].event.is_directory
          /\ IsRelativeTo(th[t].event.src_path)
          /\ IgnoredRelative(th[t].event.src_path) )
        => /\ NoEffect(t)
           /\ th'[t].result = "ignored"
      ]_vars

\* an ignored file event of a path that a rule maps to a service has been handled
C4_Witness ==
    /\ th[1].pc = "idle"
    /\ th[1].result = "ignored"
    /\ ~th[1].event.is_directory
    /\ IgnoredRelative(th[1].event.src_path)
    /\ \E k \in MatchingRules(th[1].event.src_path) :
            SERVICE_MAP[k].service = "livestream"
    /\ runs = << >>

---------------------------------------------------------------------------
(* C5 *)

\* the rules of a table that match the relative form of a path
ProbeMatches ==
    {k \in DOMAIN probe.table :
        RuleMatches(probe.table[k], relative_to(probe.path))}

\* C5: when two rules of the table match the path, get_service returns the
\* service of the matching rule declared first, the one no matching rule
\* precedes.
C5_FirstMatchWins ==
    probe.result # "unset" =>
        \A i, j \in ProbeMatches :
            i < j =>
                \E w \in ProbeMatches :
                    /\ w <= i
                    /\ \A k \in ProbeMatches : w <= k
                    /\ probe.result = probe.table[w].service

\* the table [frontend/ -> livestream, frontend/sub/ -> other] applied to
\* frontend/sub/x.js has given livestream
C5_Witness ==
    /\ probe.table = << [pattern |-> "frontend/", service |-> "livestream"],
                        [pattern |-> "frontend/sub/", service |-> "other"] >>
    /\ probe.path = WATCH_DIR \o "/frontend/sub/x.js"
    /\ probe.result = "livestream"

---------------------------------------------------------------------------
(* C6 *)

\* C6: a call is skipped only when an invocation for the same service is
\* recorded less than DEBOUNCE_SECONDS before it; a call made
\* DEBOUNCE_SECONDS or more after the recorded restart of its service, or
\* for a service never restarted, passes the check and reaches systemctl.
C6_Expiry ==
    /\ [](\A j \in DOMAIN calls :
            calls[j].fate = "skipped"
                => \E r \in DOMAIN runs :
                    /\ runs[r].service = calls[j].service
                    /\ runs[r].now <= calls[j].now
                    /\ calls[j].now - runs[r].now < DEBOUNCE_SECONDS)
    /\ [][\A t \in Threads :
            /\ ( /\ th[t].pc = "check" /\ th'[t] # th[t]
                 /\ \/ th[t].service \notin DOMAIN last_restart
                    \/ th[t].now - last_restart[th[t].service] >= DEBOUNCE_SECONDS )
                => th'[t].pc = "record"
            /\ (th[t].pc = "record" /\ th'[t] # th[t]) => th'[t].pc = "run"
            /\ (th[t].pc = "run" /\ th'[t] # th[t])
                => /\ th'[t].pc = "wait"
                   /\ runs' = Append(runs, [service |-> th[t].service,
                                            now |-> th[t].now])
       ]_vars

\* two calls for one service more than DEBOUNCE_SECONDS apart have both
\* reached systemctl
C6_Witness ==
    \E i, j \in DOMAIN calls :
        /\ i < j
        /\ calls[i].service = calls[j].service
        /\ calls[j].now - calls[i].now > DEBOUNCE_SECONDS
        /\ calls[i].fate = "issued"
        /\ calls[j].fate = "issued"
        /\ Len(runs) >= 2

---------------------------------------------------------------------------
(* C7 *)

\* C7: the debounce state is per service.  A call is skipped only after an
\* earlier call for the same service reached systemctl, whatever happened to
\* other services; recording a restart of one service leaves the recorded
\* time of every other service as it was.
C7_PerService ==
    /\ [](\A j \in DOMAIN calls :
            calls[j].fate = "skipped"
                => \E i \in 1..(j - 1) :
                    /\ calls[i].service = calls[j].service
                    /\ calls[i].fate = "issued")
    /\ [][\A t \in Threads :
            (th[t].pc = "record" /\ th'[t] # th[t])
                => \A b \in Services \ {th[t].service} :
                    /\ (b \in DOMAIN last_restart') = (b \in DOMAIN last_restart)
                    /\ b \in DOMAIN last_restart
                        => last_restart'[b] = last_restart[b]
       ]_vars

\* calls for two different services at the same instant have both reached
\* systemctl
C7_Witness ==
    \E i, j \in DOMAIN calls :
        /\ i < j
        /\ calls[i].service # calls[j].service
        /\ calls[i].now = calls[j].now
        /\ calls[i].fate = "issued"
        /\ calls[j].fate = "issued"

---------------------------------------------------------------------------
(* C8 *)

\* C8: an event of a path outside WATCH_DIR is handled as no match: the
\* callback returns without an exception and without effect.
C8_OutsideIsNoMatch ==
    \A t \in Threads :
        ( /\ th[t].pc # "dispatch"
          /\ th[t].event # NoEvent
          /\ ~IsRelativeTo(th[t].event.src_path) )
        => /\ th[t].pc = "idle"
           /\ th[t].result \in {"directory", "ignored", "noservice"}
           /\ th[t].printed = << >>

---------------------------------------------------------------------------
(* C9 *)

\* the first rule matching the path maps to None, or no rule matches
NoServiceFor(path) ==
    LET m == MatchingRules(path) IN
        \/ m = {}
        \/ \E k \in m : /\ \A l \in m : k <= l
                        /\ SERVICE_MAP[k].service = None

\* C9: a file event whose path first matches a rule mapped to None, or
\* matches no rule, ends without a restart, without a Changed line or a
\* banner, and with the debounce state as it was.
C9_NoneSuppresses ==
    [][\A t \in Threads :
        ( /\ th[t].pc = "dispatch" /\ th'[t] # th[t]
          /\ ~th[t].event.is_directory
          /\ IsRelativeTo(th[t].event.src_path)
          /\ NoServiceFor(th[t].event.src_path) )
        => NoEffect(t)
      ]_vars

\* a file event of a path under tools/ has been handled
C9_Witness ==
    /\ th[1].pc = "idle"
    /\ th[1].result = "noservice"
    /\ ~th[1].event.is_directory
    /\ \E k \in MatchingRules(th[1].event.src_path) :
            SERVICE_MAP[k].service = None

---------------------------------------------------------------------------
(* C10 *)

\* C10: a directory event, modified or created, of any path, ends at the
\* directory guard: neither the ignore filter nor the classification decides
\* its outcome, nothing is restarted or printed, the debounce state stays.
C10_DirectoryDiscarded ==
    [][\A t \in Threads :
        ( /\ th[t].pc = "dispatch" /\ th'[t] # th[t]
          /\ th[t].event.is_directory )
        => /\ NoEffect(t)
           /\ th'[t].result = "directory"
      ]_vars

\* a created directory event of a path outside WATCH_DIR has been handled
C10_Witness ==
    /\ th[1].pc = "idle"
    /\ th[1].result = "directory"
    /\ th[1].event.is_directory
    /\ th[1].event.event_type = "created"
    /\ ~IsRelativeTo(th[1].event.src_path)

---------------------------------------------------------------------------
(* C11 *)

\* the service of the first rule of SERVICE_MAP matching the path
FirstService(path) ==
    LET m == MatchingRules(path) IN
        IF m = {} THEN None
        ELSE SERVICE_MAP[CHOOSE k \in m : \A l \in m : k <= l].service

\* the event is a file event, not ignored, whose first matching rule names a service
Restarting(e) ==
    /\ ~e.is_directory
    /\ IsRelativeTo(e.src_path)
    /\ ~IgnoredRelative(e.src_path)
    /\ FirstService(e.src_path) # None

\* C11: a file event, modified or created, that is not ignored and whose
\* first matching rule names a service S prints the Changed line of its
\* relative path and calls restart_service(S); outside the debounce window
\* of S the call prints the banner and then invokes systemctl restart S
\* once, and nothing else invokes it during the callback.
C11_Dispatch ==
    [][\A t \in Threads :
        LET e == th[t].event
            changed == <<"Changed", relative_to(e.src_path)>>
        IN
        /\ (th[t].pc = "dispatch" /\ th'[t] # th[t] /\ Restarting(e))
            => /\ th'[t].pc = "check"
               /\ th'[t].service = FirstService(e.src_path)
               /\ th'[t].now = clock
               /\ th'[t].printed = << changed >>
               /\ runs' = runs
        /\ ( /\ th[t].pc = "check" /\ th'[t] # th[t] /\ Restarting(e)
             /\ \/ th[t].service \notin DOMAIN last_restart
                \/ th[t].now - last_restart[th[t].service] >= DEBOUNCE_SECONDS )
            => /\ th'[t].pc = "record"
               /\ runs' = runs
        /\ (th[t].pc = "record" /\ th'[t] # th[t] /\ Restarting(e))
            => /\ th'[t].pc = "run"
               /\ runs' = runs
        /\ (th[t].pc = "run" /\ th'[t] # th[t] /\ Restarting(e))
            => /\ th'[t].pc = "wait"
               /\ th[t].printed = << changed, <<"Restarting", th[t].service>> >>
               /\ th[t].service = FirstService(e.src_path)
               /\ runs' = Append(runs, [service |-> FirstService(e.src_path),
                                        now |-> th[t].now])
        /\ (th[t].pc = "wait" /\ th'[t] # th[t] /\ Restarting(e))
            => /\ th'[t].pc = "idle"
               /\ runs' = runs
      ]_vars

\* the restart of livestream is running for a created frontend/index.html,
\* after its Changed line and banner
C11_Witness ==
    /\ th[1].pc = "wait"
    /\ th[1].event.event_type = "created"
    /\ th[1].event.src_path = WATCH_DIR \o "/frontend/index.html"
    /\ th[1].printed = << <<"Changed", "frontend/index.html">>,
                          <<"Restarting", "livestream">> >>
    /\ runs # << >>
    /\ runs[Len(runs)] = [service |-> "livestream", now |-> th[1].now]

---------------------------------------------------------------------------
(* C12 *)

\* C12: while a call is about to invoke systemctl or waits for it, the
\* recorded time of its service is already the time of this call.
C12_RecordedBeforeCommand ==
    \A t \in Threads :
        th[t].pc \in {"run", "wait"}
            => /\ th[t].service \in DOMAIN last_restart
               /\ last_restart[th[t].service] = th[t].now

\* a restart is in progress, time has passed since it began, and the recorded
\* time has replaced that of an earlier restart of the service
C12_Witness ==
    /\ th[1].pc = "wait"
    /\ clock > th[1].now
    /\ last_restart[th[1].service] = th[1].now
    /\ \E r \in DOMAIN runs :
        /\ runs[r].service = th[1].service
        /\ runs[r].now < th[1].now

---------------------------------------------------------------------------
\* C13: the startup self-check does not gate the start: whatever the
\* is-active query does for a service (active, inactive, unknown unit, or the
\* query itself failing), main() is not ended by it and can still go on to
\* start the observer and enter the watch loop.
C13_StatusNotGating == mainPc # "crashed"

---------------------------------------------------------------------------
\* C14: the watch loop is left only by the interrupt, which stops the
\* observer; from then on no event is taken, the stop and the join issue no
\* restart command, pending_restarts holds nothing to flush, and (a callback
\* in progress running on) main() reaches its end, "Watcher stopped."
C14_Termination ==
    /\ [][/\ mainPc = "loop" => mainPc' \in {"loop", "join"}
          /\ (mainPc = "loop" /\ mainPc' = "join") =>
                 (observer' = "stopped" /\ runs' = runs)
          /\ mainPc \in {"join", "done"} =>
                 /\ observer = "stopped" /\ observer' = "stopped"
                 /\ mainPc' \in {"join", "done"}
                 /\ pending_restarts' = {}
          /\ observer = "stopped" =>
                 /\ \A t \in Threads : th[t].pc = "idle" => th'[t] = th[t]
                 /\ runs' # runs => \E t \in Threads : th[t].pc = "run"
          /\ mainPc' = "done" =>
                 (runs' = runs /\ \A t \in Threads : th[t].pc = "idle")
         ]_vars
    /\ (mainPc = "join") ~> (mainPc = "done")

\* the interrupt arrived while `systemctl restart` was running
C14_Witness ==
    /\ mainPc = "join"
    /\ observer = "stopped"
    /\ th[1].pc = "wait"

---------------------------------------------------------------------------
---------------------------------------------------------------------------
(* C16 *)

\* p is a prefix of s, character by character
RefPrefix(p, s) ==
    /\ Len(p) <= Len(s)
    /\ \A i \in 1..Len(p) : SubSeq(s, i, i) = SubSeq(p, i, i)

\* p without its trailing separator
RefStripped(p) ==
    IF Len(p) > 0 /\ SubSeq(p, Len(p), Len(p)) = "/"
        THEN SubSeq(p, 1, Len(p) - 1)
        ELSE p

\* the rules of the probe's table that match by the reference rule
RefMatches ==
    {k \in DOMAIN probe.table :
        \/ RefPrefix(probe.table[k].pattern, relative_to(probe.path))
        \/ RefStripped(probe.table[k].pattern) = relative_to(probe.path)}

\* the service of the first reference match, None without one
RefService ==
    IF RefMatches = {}
        THEN None
        ELSE probe.table[CHOOSE k \in RefMatches :
                             \A l \in RefMatches : k <= l].service

\* C16: for every table and relative path of the bounded sets get_service
\* returns what the reference rule gives: a rule matches exactly when its
\* pattern is a string prefix of the relative path or the pattern without
\* its trailing separator equals the path; the result is the service of the
\* first matching rule, None without a match.  With SERVICE_MAP,
\* frontend/a.js, frontend and server.js match and docs/x does not.
C16_AgreesWithReference ==
    probe.result # "unset" =>
        LET rel == relative_to(probe.path) IN
        /\ probe.result = RefService
        /\ probe.table = SERVICE_MAP =>
            /\ rel \in {"frontend/a.js", "frontend", "server.js"} =>
                   probe.result = "livestream"
            /\ rel = "docs/x" => (RefMatches = {} /\ probe.result = None)

\* SERVICE_MAP applied to the directory frontend itself has given livestream
C16_Witness ==
    /\ probe.table = SERVICE_MAP
    /\ probe.path = WATCH_DIR \o "/frontend"
    /\ probe.result = "livestream"

---------------------------------------------------------------------------
(* C17 *)

\* the first component of a relative path
FirstComponent(rel) ==
    LET slashes == {i \in 1..Len(rel) : SubSeq(rel, i, i) = "/"} IN
        IF slashes = {}
            THEN rel
            ELSE SubSeq(rel, 1, (CHOOSE i \in slashes :
                                    \A j \in slashes : i <= j) - 1)

\* C17 as claimed: a path under frontend-old/ matches the rule declared for
\* frontend/ and is classified to its service, livestream.
C17_SiblingMatches ==
    (/\ probe.result # "unset"
     /\ probe.table = SERVICE_MAP
     /\ StartsWith(relative_to(probe.path), "frontend-old/"))
        => probe.result = "livestream"

\* C17 as the code has it: a rule whose pattern ends with the separator
\* classifies only paths below its directory (and the directory itself), so
\* a path under frontend-old/ gets no service from the rule for frontend/;
\* a rule without the separator (server.js) does classify a path whose first
\* name merely extends it (server.jsx).
C17_SeparatorGuards ==
    (probe.result # "unset" /\ probe.table = SERVICE_MAP) =>
        LET rel == relative_to(probe.path)
            first == FirstComponent(rel) IN
        /\ \A k \in DOMAIN SERVICE_MAP :
            LET pattern == SERVICE_MAP[k].pattern
                dir == SubSeq(pattern, 1, Len(pattern) - 1) IN
            (/\ SubSeq(pattern, Len(pattern), Len(pattern)) = "/"
             /\ RefPrefix(dir, first)
             /\ first # dir)
                => probe.result = None
        /\ StartsWith(rel, "frontend-old/") => probe.result = None
        /\ first = "server.jsx" => probe.result = "livestream"

\* SERVICE_MAP applied to frontend-old/a.js has given no service
C17_Witness ==
    /\ probe.table = SERVICE_MAP
    /\ probe.path = WATCH_DIR \o "/frontend-old/a.js"
    /\ probe.result = None

---------------------------------------------------------------------------
(* C18 *)

\* C18: a failed restart still consumes the debounce window.  When the
\* command returns or raises, whatever its outcome, the time recorded for
\* its service stays as written before the command; so a call for the same
\* service checked less than DEBOUNCE_SECONDS after an attempt that failed
\* is skipped, without a new invocation.
C18_FailureConsumesWindow ==
    [][\A t \in Threads :
        /\ (th[t].pc = "wait" /\ th'[t].pc # "wait")
            => /\ last_restart' = last_restart
               /\ th[t].service \in DOMAIN last_restart'
               /\ last_restart'[th[t].service] = th[t].now
        /\ ( /\ th[t].pc = "check" /\ th'[t] # th[t]
             /\ last_outcome \in FailedOutcomes
             /\ runs # << >>
             /\ runs[Len(runs)].service = th[t].service
             /\ th[t].now - runs[Len(runs)].now < DEBOUNCE_SECONDS )
            => /\ th'[t].pc = "idle"
               /\ th'[t].result = "skipped"
               /\ runs' = runs
               /\ last_restart' = last_restart
      ]_vars

\* the latest call was skipped inside the window of an attempt that failed
C18_Witness ==
    /\ th[1].pc = "idle"
    /\ th[1].result = "skipped"
    /\ last_outcome \in FailedOutcomes
    /\ Len(runs) = 1
    /\ calls # << >>
    /\ calls[Len(calls)].fate = "skipped"
    /\ calls[Len(calls)].service = runs[1].service
    /\ calls[Len(calls)].now > runs[1].now

---------------------------------------------------------------------------
(* C19 *)

\* the issued calls for the service of call j that precede it
IssuedBefore(j) ==
    {i \in 1..(j - 1) : /\ calls[i].service = calls[j].service
                        /\ calls[i].fate = "issued"}

\* C19: the window is anchored to the last issued restart.  last_restart
\* changes at the record step of a passing call only: a skipped call and an
\* ignored, suppressed, unmatched or directory event leave it as it was, and
\* the time it holds for a service is that of the service's latest attempt.
\* So a call is skipped exactly when the latest ISSUED call for its service
\* is less than DEBOUNCE_SECONDS before it, however many calls were skipped
\* in between: a stream of calls spaced closer than the window is served
\* again as soon as the window since the last issued restart has elapsed.
C19_AnchoredToIssued ==
    /\ [](\A s \in DOMAIN last_restart :
            \/ \E t \in Threads : /\ th[t].pc = "run"
                                  /\ th[t].service = s
                                  /\ th[t].now = last_restart[s]
            \/ \E r \in DOMAIN runs :
                /\ runs[r].service = s
                /\ runs[r].now = last_restart[s]
                /\ \A q \in DOMAIN runs : q > r => runs[q].service # s)
    /\ [](\A j \in DOMAIN calls :
            Decided(calls[j]) =>
                IF IssuedBefore(j) = {}
                    THEN calls[j].fate = "issued"
                    ELSE LET i == CHOOSE i \in IssuedBefore(j) :
                                      \A l \in IssuedBefore(j) : l <= i IN
                         (calls[j].fate = "skipped")
                            <=> (calls[j].now - calls[i].now < DEBOUNCE_SECONDS))
    /\ [][\A t \in Threads :
            /\ last_restart' # last_restart
                => \E u \in Threads :
                    /\ th[u].pc = "record"
                    /\ last_restart' =
                         SetItem(last_restart, th[u].service, th[u].now)
            /\ (th[t].pc = "check" /\ th'[t].pc = "idle")
                => (th'[t].result = "skipped" /\ last_restart' = last_restart)
            /\ (th[t].pc = "dispatch" /\ th'[t] # th[t])
                => /\ th'[t].pc = "idle"
                   /\ th'[t].result \in {"directory", "ignored", "noservice"}
                   /\ last_restart' = last_restart
         ]_vars

\* three calls for one service one second apart: issued, skipped, issued
C19_Witness ==
    /\ Len(calls) = 3
    /\ \A k \in 1..3 : /\ calls[k].service = calls[1].service
                       /\ calls[k].now = k - 1
    /\ calls[1].fate = "issued"
    /\ calls[2].fate = "skipped"
    /\ calls[3].fate = "issued"
    /\ Len(runs) = 2

---------------------------------------------------------------------------
(* C20 *)

\* C20: a change skipped by the debounce check is dropped for good.
\* pending_restarts is empty in every state; systemctl is invoked only by a
\* thread that is inside the callback of a file event, at the restart step
\* of that callback; and while no callback is running and no event is taken,
\* whatever time passes, nothing is invoked and the debounce state stays:
\* the skipped change is never made up for.
C20_SkippedIsDropped ==
    /\ [](pending_restarts = {})
    /\ [][/\ runs' # runs
            => \E t \in Threads :
                /\ th[t].pc = "run"
                /\ th[t].event \in EventsOn(WatchedPaths)
                /\ th'[t].pc = "wait"
                /\ runs' = Append(runs, [service |-> th[t].service,
                                         now |-> th[t].now])
          /\ ( /\ \A t \in Threads : th[t].pc \in {"idle", "dead"}
               /\ \A t \in Threads : th'[t].pc # "dispatch" )
            => /\ runs' = runs
               /\ last_restart' = last_restart
               /\ \A t \in Threads : th'[t] = th[t]
         ]_vars

\* the last event of a service was skipped, the window has passed since the
\* one restart, and there has been no second restart
C20_Witness ==
    /\ th[1].pc = "idle"
    /\ th[1].result = "skipped"
    /\ Len(runs) = 1
    /\ runs[1].service = FirstService(th[1].event.src_path)
    /\ clock - runs[1].now >= DEBOUNCE_SECONDS
    /\ pending_restarts = {}

====
